---- MODULE Spec2Model ----
(***************************************************************************)
(* Model of the research-powerpack tool handlers.                          *)
(*                                                                         *)
(* One invocation of one tool handler is modelled at a time: `tool` says   *)
(* which handler runs, `pc` where it stands between two awaits, `locals`   *)
(* holds the handler's local variables, `pm` the state of the bounded      *)
(* parallel map (pMap) the handler is waiting on, `sent` the batch handed  *)
(* to the handler's external batch call, `calls` how often each external   *)
(* collaborator has been called, and `outcome`/`result` how the call       *)
(* ended: with a returned value, or with an exception reaching the caller. *)
(* `tokens` lists the max_tokens value of every per-item LLM or research   *)
(* call the invocation has issued.                                         *)
(***************************************************************************)
EXTENDS Integers, Sequences, FiniteSets, TLC

VARIABLES tool, pc, params, locals, pm, sent, calls, raised, outcome, result, tokens

vars == <<tool, pc, params, locals, pm, sent, calls, raised, outcome, result, tokens>>

(***************************************************************************)
(* Bounds of the model.                                                    *)
(***************************************************************************)
\* URL lists up to this length are enumerated with every mix of well-formed
\* and malformed URLs and every mix of scrape results.
MaxUrls == 3
\* Plain lists (all URLs well-formed, all scrapes successful) go up to this
\* length, so that more items than concurrency slots reach the LLM pass.
MaxBatch == 5
\* Question lists up to this length are enumerated with every mix of
\* attachments and research outcomes.
MaxQuestions == 3
\* Reddit URL lists and query lists up to this length are enumerated with
\* every mix of results.
MaxPosts == 3
\* Keyword lists up to this length are enumerated.
MaxKeywords == 3
\* Tool invocations served by one Workers agent.
MaxInvocations == 3

(***************************************************************************)
(* Program constants.                                                      *)
(***************************************************************************)
SCRAPER_MAX_URLS == 50
SCRAPER_BATCH_SIZE == 30
REDDIT_MIN_POSTS == 2
REDDIT_MAX_POSTS == 50
\* A stricter minimum, as the tool description states it.
MinQuestionsTwo == 1 + 1
MIN_QUESTIONS == 1
MAX_QUESTIONS == 10
\* queries.slice(0, 50) in handleSearchReddit
REDDIT_QUERY_LIMIT == 50

(***************************************************************************)
(* Values shared by the handlers.                                          *)
(***************************************************************************)
Min(a, b) == IF a <= b THEN a ELSE b

NoResult == [kind |-> "none"]

NoLocals == [none |-> TRUE]

\* pMap idle: nothing started, nothing in flight, no output.
PMapIdle == [next |-> 1, inflight |-> << >>, out |-> << >>, submitted |-> << >>,
             order |-> << >>]

ExternalCalls ==
    {"ScraperClient", "scrapeMultiple", "createLLMProcessor", "processContentWithLLM",
     "ResearchClient", "FileAttachmentService", "formatAttachments", "research",
     "SearchClient", "searchMultiple", "searchRedditMultiple",
     "RedditClient", "batchGetPosts", "aggregate", "executeTool"}

NoCalls == [f \in ExternalCalls |-> 0]

Called(f) == [calls EXCEPT ![f] = @ + 1]

\* The exceptions a collaborator may raise: a transient fault (rate limit,
\* network) or a permanent one (bad credentials).  A TypeError is what the
\* runtime raises on a property read of undefined.
CollaboratorErrors ==
    { [name |-> "Error", message |-> "rate limited", transient |-> TRUE],
      [name |-> "Error", message |-> "unauthorized", transient |-> FALSE] }

TypeError == [name |-> "TypeError", message |-> "cannot read properties of undefined",
              transient |-> FALSE]

\* utils/errors.js classifyError: an exception as a structured error.
classifyError(e) ==
    [code      |-> IF e.name = "TypeError" THEN "INTERNAL_ERROR"
                   ELSE IF e.transient THEN "RATE_LIMITED" ELSE "AUTH_ERROR",
     message   |-> e.message,
     retryable |-> e.transient]

\* tools/utils.js formatError: the error report.  `given` are the fields of
\* the argument object the caller passed with a defined value.
formatError(code, toolName, given) ==
    [kind |-> "error_report", code |-> code, toolName |-> toolName, given |-> given]

\* tools/utils.js formatSuccess: the 70/20/10 report.
formatSuccess(title, data) ==
    [kind |-> "success_report", title |-> title, data |-> data]

Returned(v) == /\ outcome' = "returned"
               /\ result' = v
               /\ pc' = "done"

\* An exception that no try block of the handler catches reaches the caller.
Thrown(e) == /\ outcome' = "thrown"
             /\ result' = [kind |-> "exception", error |-> e]
             /\ pc' = "done"

(***************************************************************************)
(* pMap (utils/concurrency.js): the bounded parallel map.  Items are       *)
(* started in order, at most `concurrency` callbacks are in flight, and    *)
(* the output keeps the order of the input.                                *)
(*   pm.next       the index of the next item to start                     *)
(*   pm.inflight   the callbacks in flight: index -> what each awaits      *)
(*   pm.out        the outputs of the settled callbacks: index -> value    *)
(*   pm.submitted  per item, the external calls its callback has issued    *)
(*   pm.order      the indexes of the settled callbacks, as they settled    *)
(***************************************************************************)
PMapBegin(n) == [next |-> 1, inflight |-> << >>, out |-> << >>,
                 submitted |-> [i \in 1..n |-> 0], order |-> << >>]

PMapStartable(n, concurrency) ==
    /\ pm.next <= n
    /\ Cardinality(DOMAIN pm.inflight) < concurrency

PMapSettled(n) == pm.next > n /\ DOMAIN pm.inflight = {}

PMapOutput(n) == [i \in 1..n |-> pm.out[i]]

\* The callback of item i starts and awaits `phase`.
PMapStarted(i, phase) == [pm EXCEPT !.next = i + 1, !.inflight = @ @@ (i :> phase)]

\* The callback of item i moves on to await `phase`.
PMapAwaits(i, phase) == [pm EXCEPT !.inflight[i] = phase]

\* The callback of item i issues its external call.
PMapSubmits(p, i) == [p EXCEPT !.submitted[i] = @ + 1]

\* The callback of item i settles with value v.
PMapSettles(i, v) ==
    [pm EXCEPT !.inflight = [j \in DOMAIN pm.inflight \ {i} |-> pm.inflight[j]],
               !.out = @ @@ (i :> v),
               !.order = Append(@, i)]

InFlight(phase) == {i \in DOMAIN pm.inflight : pm.inflight[i] = phase}

CeilDiv(a, b) == (a + b - 1) \div b

\* tools/utils.js TOKEN_BUDGETS: the fixed token budget of a batch tool.
TOKEN_BUDGET_SCRAPER == 32000

TOKEN_BUDGET_RESEARCH == 32000

\* tools/utils.js calculateTokenAllocation: the budget split evenly across
\* `count` items, rounded down.
calculateTokenAllocation(count, budget) ==
    IF count <= 0 THEN budget ELSE budget \div count

(***************************************************************************)
(* handleScrapeLinks                                                       *)
(***************************************************************************)
\* The third argument of pMap in the LLM extraction pass.
LLMConcurrencyRaised == 3 + 1
LLM_CONCURRENCY == 3

\* new URL(url) parses a well-formed URL and raises on a malformed one.
URLParses(u) == u.wellFormed

UrlLists(n) ==
    { [i \in 1..n |-> [id |-> i, wellFormed |-> f[i]]] : f \in [1..n -> BOOLEAN] }

PlainUrls(n) == [i \in 1..n |-> [id |-> i, wellFormed |-> TRUE]]

\* params of handleScrapeLinks: urls may be missing.  A list longer than
\* MaxBatch is submitted without LLM extraction.
ScrapeInputs ==
    { [hasUrls |-> FALSE, urls |-> << >>, use_llm |-> l] : l \in BOOLEAN }
    \cup { [hasUrls |-> TRUE, urls |-> u, use_llm |-> l] :
             u \in UNION { UrlLists(n) : n \in 0..MaxUrls }, l \in BOOLEAN }
    \cup { [hasUrls |-> TRUE, urls |-> PlainUrls(n), use_llm |-> l] :
             n \in (MaxUrls + 1)..MaxBatch, l \in BOOLEAN }
    \cup { [hasUrls |-> TRUE, urls |-> PlainUrls(n), use_llm |-> FALSE] :
             n \in {SCRAPER_MAX_URLS, SCRAPER_MAX_URLS + 1} }

\* params.urls?.length || 0
UrlCount(p) == IF p.hasUrls THEN Len(p.urls) ELSE 0

createErrorResponseNoneFailed(code, given) ==
    [content |-> formatError(code, "scrape_links",
                             given \cup {"code", "message", "retryable"}
                                   \cup (IF code = "NO_URLS" THEN {"howToFix"} ELSE {})),
     structuredContent |->
        [kind |-> "error",
         metadata |-> [total_urls |-> UrlCount(params), successful |-> 0,
                       failed |-> 0, total_credits |-> 0]]]
createErrorResponse(code, given) ==
    [content |-> formatError(code, "scrape_links",
                             given \cup {"code", "message", "retryable"}
                                   \cup (IF code = "NO_URLS" THEN {"howToFix"} ELSE {})),
     structuredContent |->
        [kind |-> "error",
         metadata |-> [total_urls |-> UrlCount(params), successful |-> 0,
                       failed |-> UrlCount(params), total_credits |-> 0]]]

ValidUrls(urls) == SelectSeq(urls, URLParses)

InvalidUrls(urls) == SelectSeq(urls, LAMBDA u : ~URLParses(u))

ScrapeLocals(urls) ==
    [validUrls |-> ValidUrls(urls), invalidUrls |-> InvalidUrls(urls),
     tokensPerUrl |-> calculateTokenAllocation(Len(ValidUrls(urls)), TOKEN_BUDGET_SCRAPER),
     totalBatches |-> CeilDiv(Len(ValidUrls(urls)), SCRAPER_BATCH_SIZE),
     llmProcessor |-> "unset", successful |-> 0, failed |-> 0, totalCredits |-> 0,
     llmErrors |-> 0, contents |-> << >>, successItems |-> << >>, results |-> << >>]

\* One entry of what scrapeMultiple resolves with.  `present` is FALSE for a
\* hole in the array; `cleanRaises` says whether the markdown cleaner raises
\* on the content.
ScrapeResultKinds == {"ok", "uncleanable", "http_error", "error", "hole"}

\* Further kinds, returned for a long list only: status codes on either side
\* of the success range.
ScrapeStatusKinds == {"http_199", "http_404"}

ScrapeResult(u, kind) ==
    [present     |-> kind # "hole",
     url         |-> u.id,
     error       |-> kind = "error",
     statusCode  |-> CASE kind = "uncleanable" -> 299
                       [] kind = "http_error"  -> 300
                       [] kind = "http_199"    -> 199
                       [] kind = "http_404"    -> 404
                       [] OTHER                -> 200,
     credits     |-> IF kind = "uncleanable" THEN 2 ELSE 1,
     content     |-> [of |-> u.id, form |-> "raw"],
     cleanRaises |-> kind = "uncleanable"]

\* What scrapeMultiple may resolve with: one result per URL; every mix of
\* kinds for a short list, one kind throughout for a long one.
ScrapeResultChoices(urls) ==
    IF Len(urls) <= MaxUrls
    THEN { [i \in 1..Len(urls) |-> ScrapeResult(urls[i], k[i])] :
             k \in [1..Len(urls) -> ScrapeResultKinds] }
    ELSE { [i \in 1..Len(urls) |-> ScrapeResult(urls[i], k)] :
             k \in ScrapeResultKinds \cup ScrapeStatusKinds }

\* markdownCleaner.processContent inside its try block: the cleaned content,
\* or the content as scraped when the cleaner raises.
CleanedContent(r) ==
    IF r.cleanRaises THEN r.content ELSE [r.content EXCEPT !.form = "cleaned"]

IsScrapeSuccessWithoutStatus(r) == ~r.error
IsScrapeSuccess(r) == ~r.error /\ r.statusCode >= 200 /\ r.statusCode < 300

InvalidEntries(invalid) ==
    [i \in 1..Len(invalid) |-> [url |-> invalid[i].id, of |-> 0, form |-> "invalid_url"]]

\* Pass 1 over results[i..]: error checking, credit counting, cleaning.
RECURSIVE Pass1(_, _, _)
Pass1(results, i, acc) ==
    IF i > Len(results) THEN acc
    ELSE LET r == results[i] IN
         IF ~r.present
         THEN Pass1(results, i + 1,
                    [acc EXCEPT !.failed = @ + 1,
                                !.contents = Append(@, [url |-> 0, of |-> 0, form |-> "no_result"])])
         ELSE IF ~IsScrapeSuccess(r)
         THEN Pass1(results, i + 1,
                    [acc EXCEPT !.failed = @ + 1,
                                !.contents = Append(@, [url |-> r.url, of |-> 0, form |-> "failed"])])
         ELSE Pass1(results, i + 1,
                    [acc EXCEPT !.successful = @ + 1,
                                !.totalCredits = @ + r.credits,
                                !.successItems =
                                    Append(@, [url |-> r.url, content |-> CleanedContent(r),
                                               index |-> i - 1])])

ScrapeMetadataOfValid(l) ==
    [total_urls |-> Len(l.validUrls), successful |-> l.successful, failed |-> l.failed,
     total_credits |-> l.totalCredits, batches_processed |-> l.totalBatches]
ScrapeMetadata(l) ==
    [total_urls |-> Len(params.urls), successful |-> l.successful, failed |-> l.failed,
     total_credits |-> l.totalCredits, batches_processed |-> l.totalBatches]

InitScrape ==
    /\ tool = "scrape_links"
    /\ pc = "start"
    /\ params \in ScrapeInputs
    /\ locals = NoLocals
    /\ pm = PMapIdle
    /\ sent = << >>
    /\ calls = NoCalls
    /\ raised = FALSE
    /\ outcome = "running"
    /\ result = NoResult
    /\ tokens = << >>

\* Validation of params and the split into valid and invalid URLs.
ScrapeValidate ==
    /\ tool = "scrape_links" /\ pc = "start"
    /\ IF ~params.hasUrls \/ Len(params.urls) = 0
       THEN /\ Returned(createErrorResponse("NO_URLS", {"alternatives"}))
            /\ UNCHANGED locals
       ELSE IF Len(ValidUrls(params.urls)) = 0
       THEN /\ Returned(createErrorResponse("INVALID_URLS", {"alternatives"}))
            /\ UNCHANGED locals
       ELSE /\ locals' = ScrapeLocals(params.urls)
            /\ pc' = "init_client"
            /\ UNCHANGED <<outcome, result>>
    /\ UNCHANGED <<tool, params, pm, sent, calls, raised, tokens>>

\* new ScraperClient() inside its try block.
ScrapeInitClient ==
    /\ tool = "scrape_links" /\ pc = "init_client"
    /\ calls' = Called("ScraperClient")
    /\ \/ /\ pc' = "create_llm"
          /\ UNCHANGED <<raised, outcome, result>>
       \/ /\ \E e \in CollaboratorErrors : raised' = TRUE
          /\ Returned(createErrorResponse("CLIENT_INIT_FAILED", {"alternatives"}))
    /\ UNCHANGED <<tool, params, locals, pm, sent, tokens>>

\* createLLMProcessor() and the call of scrapeMultiple with the valid URLs.
ScrapeCreateLLM ==
    /\ tool = "scrape_links" /\ pc = "create_llm"
    /\ \/ /\ \E p \in {"processor", "null"} : locals' = [locals EXCEPT !.llmProcessor = p]
          /\ calls' = [calls EXCEPT !["createLLMProcessor"] = @ + 1,
                                    !["scrapeMultiple"] = @ + 1]
          /\ sent' = locals.validUrls
          /\ pc' = "scraping"
          /\ UNCHANGED <<raised, outcome, result>>
       \/ /\ calls' = Called("createLLMProcessor")
          /\ raised' = TRUE
          /\ \E e \in CollaboratorErrors : Thrown(e)
          /\ UNCHANGED <<locals, sent>>
    /\ UNCHANGED <<tool, params, pm, tokens>>

\* scrapeMultiple resolves: the invalid URLs are counted, pass 1 runs, and
\* the LLM pass starts when there is something to extract.
ScrapeResolved ==
    /\ tool = "scrape_links" /\ pc = "scraping"
    /\ \E results \in ScrapeResultChoices(locals.validUrls) :
         LET counted == [locals EXCEPT !.failed = Len(locals.invalidUrls),
                                       !.contents = InvalidEntries(locals.invalidUrls),
                                       !.results = results]
             after == Pass1(results, 1, counted)
         IN /\ locals' = after
            /\ IF params.use_llm /\ after.llmProcessor # "null" /\ Len(after.successItems) > 0
               THEN pc' = "llm" /\ pm' = PMapBegin(Len(after.successItems))
               ELSE pc' = "assemble" /\ UNCHANGED pm
    /\ UNCHANGED <<tool, params, sent, calls, raised, outcome, result, tokens>>

\* scrapeMultiple rejects: nothing catches it.
ScrapeRejected ==
    /\ tool = "scrape_links" /\ pc = "scraping"
    /\ raised' = TRUE
    /\ \E e \in CollaboratorErrors : Thrown(e)
    /\ UNCHANGED <<tool, params, locals, pm, sent, calls, tokens>>

\* pMap starts the callback of the next success item, which calls
\* processContentWithLLM.
LLMStart ==
    /\ tool = "scrape_links" /\ pc = "llm"
    /\ PMapStartable(Len(locals.successItems), LLM_CONCURRENCY)
    /\ pm' = PMapSubmits(PMapStarted(pm.next, "processContentWithLLM"), pm.next)
    /\ calls' = Called("processContentWithLLM")
    /\ tokens' = Append(tokens, locals.tokensPerUrl)
    /\ UNCHANGED <<tool, pc, params, locals, sent, raised, outcome, result>>

\* llmErrors++ in the callback: read and write in one synchronous step.
LLMErrorsOverwritten(n) == 1
LLMErrorsIncremented(n) == n + 1

\* What the extraction callback returns for an item: the item with the
\* extracted content when the result is processed, the item as it is otherwise.
LLMCallbackDropsContent(item, processed) ==
    IF processed
    THEN [item EXCEPT !.content = [of |-> item.content.of, form |-> "llm"]]
    ELSE [item EXCEPT !.content = [of |-> 0, form |-> "none"]]
LLMCallback(item, processed) ==
    IF processed
    THEN [item EXCEPT !.content = [of |-> item.content.of, form |-> "llm"]]
    ELSE item

\* processContentWithLLM resolves for item i: processed or not.
LLMResolved(i) ==
    /\ tool = "scrape_links" /\ pc = "llm"
    /\ i \in InFlight("processContentWithLLM")
    /\ LET item == locals.successItems[i] IN
       \/ /\ pm' = PMapSettles(i, LLMCallback(item, TRUE))
          /\ UNCHANGED locals
       \/ /\ pm' = PMapSettles(i, LLMCallback(item, FALSE))
          /\ locals' = [locals EXCEPT !.llmErrors = LLMErrorsIncremented(@)]
    /\ UNCHANGED <<tool, pc, params, sent, calls, raised, outcome, result, tokens>>

\* processContentWithLLM rejects for item i: the callback rejects, pMap
\* rejects, and nothing catches it.
LLMRejected(i) ==
    /\ tool = "scrape_links" /\ pc = "llm"
    /\ i \in InFlight("processContentWithLLM")
    /\ raised' = TRUE
    /\ \E e \in CollaboratorErrors : Thrown(e)
    /\ UNCHANGED <<tool, params, locals, pm, sent, calls, tokens>>

\* pMap resolves: successItems take the outputs, in order.
ScrapeLLMDone ==
    /\ tool = "scrape_links" /\ pc = "llm"
    /\ PMapSettled(Len(locals.successItems))
    /\ locals' = [locals EXCEPT !.successItems = PMapOutput(Len(locals.successItems))]
    /\ pc' = "assemble"
    /\ UNCHANGED <<tool, params, pm, sent, calls, raised, outcome, result, tokens>>

\* Pass 3 and the report.  removeMetaTags may raise on an item; the content
\* is then used as it is.
ScrapeAssemble ==
    /\ tool = "scrape_links" /\ pc = "assemble"
    /\ \E metaRaises \in SUBSET (1..Min(Len(locals.successItems), MaxUrls)) :
         LET entries == [i \in 1..Len(locals.successItems) |->
                           [url  |-> locals.successItems[i].url,
                            of   |-> locals.successItems[i].content.of,
                            form |-> IF i \in metaRaises
                                     THEN locals.successItems[i].content.form
                                     ELSE "clean_" \o locals.successItems[i].content.form]]
             final == [locals EXCEPT !.contents = @ \o entries]
         IN /\ locals' = final
            /\ Returned([content |-> formatSuccess("Scraping Complete", final.contents),
                         structuredContent |->
                            [kind |-> "report",
                             extras |-> IF final.llmErrors > 0
                                        THEN {"Credits used", "LLM extraction failures"}
                                        ELSE {"Credits used"},
                             metadata |-> ScrapeMetadata(final)]])
    /\ UNCHANGED <<tool, params, pm, sent, calls, raised, tokens>>

NextScrape ==
    \/ ScrapeValidate
    \/ ScrapeInitClient
    \/ ScrapeCreateLLM
    \/ ScrapeResolved
    \/ ScrapeRejected
    \/ LLMStart
    \/ \E i \in DOMAIN pm.inflight : LLMResolved(i)
    \/ \E i \in DOMAIN pm.inflight : LLMRejected(i)
    \/ ScrapeLLMDone
    \/ ScrapeAssemble

SpecScrape == InitScrape /\ [][NextScrape]_vars

(***************************************************************************)
(* handleDeepResearch                                                      *)
(***************************************************************************)
\* The third argument of pMap over the questions.
ResearchConcurrencyRaised == 3 + 1
ResearchConcurrencyNone == 3 - 3
RESEARCH_CONCURRENCY == 3

QuestionLists(n) ==
    { [i \in 1..n |-> [id |-> i, hasAttachments |-> f[i]]] : f \in [1..n -> BOOLEAN] }

PlainQuestions(n) == [i \in 1..n |-> [id |-> i, hasAttachments |-> FALSE]]

\* params of handleDeepResearch: questions may be missing.
ResearchInputs ==
    { [hasQuestions |-> FALSE, questions |-> << >>] }
    \cup { [hasQuestions |-> TRUE, questions |-> q] :
             q \in UNION { QuestionLists(n) : n \in 0..MaxQuestions } }
    \cup { [hasQuestions |-> TRUE, questions |-> PlainQuestions(n)] :
             n \in (MaxQuestions + 1)..(MAX_QUESTIONS + 1) }

\* params.questions || []
Questions(p) == IF p.hasQuestions THEN p.questions ELSE << >>

\* How client.research may end for a question: with content, with an empty
\* response, with an error in the response, or by raising.  Lists longer
\* than MaxQuestions are answered with content throughout.
ResearchOutcomes(n) ==
    IF n <= MaxQuestions THEN {"content", "empty", "error", "raise"} ELSE {"content"}

\* The QuestionResult the callback returns for question q.
QuestionResult(q, how) ==
    [question |-> q.id,
     content  |-> IF how = "content" THEN "content" ELSE "",
     success  |-> how = "content",
     error    |-> CASE how = "content" -> "undefined"
                    [] how = "empty"   -> "Empty response received"
                    [] how = "error"   -> "response.error.message"
                    [] OTHER           -> "structuredError.message"]

\* How the pMap callback settles for question q: its try block returns a
\* QuestionResult on every path, and its catch block another.
ResearchCallbackRejects(q, how) ==
    IF how = "raise"
    THEN [settled |-> "rejected", value |-> QuestionResult(q, how)]
    ELSE [settled |-> "resolved", value |-> QuestionResult(q, how)]
ResearchCallback(q, how) ==
    [settled |-> "resolved", value |-> QuestionResult(q, how)]

ResearchError(code, given) ==
    [content |-> formatError(code, "deep_research", given),
     structuredContent |-> [kind |-> "error", error |-> TRUE, code |-> code]]

ResearchReport(questions, results) ==
    [content |-> formatSuccess("Research Complete", results),
     structuredContent |->
        [kind |-> "report",
         totalQuestions |-> Len(questions),
         successful |-> Len(SelectSeq(results, LAMBDA r : r.success)),
         failed |-> Len(SelectSeq(results, LAMBDA r : ~r.success)),
         results |-> results]]

InitResearch ==
    /\ tool = "deep_research"
    /\ pc = "start"
    /\ params \in ResearchInputs
    /\ locals = NoLocals
    /\ pm = PMapIdle
    /\ sent = << >>
    /\ calls = NoCalls
    /\ raised = FALSE
    /\ outcome = "running"
    /\ result = NoResult
    /\ tokens = << >>

\* The validation of the number of questions.
ResearchValidate ==
    /\ tool = "deep_research" /\ pc = "start"
    /\ LET questions == Questions(params) IN
       IF Len(questions) < MIN_QUESTIONS
       THEN /\ Returned(ResearchError("MIN_QUESTIONS",
                                      {"code", "message", "howToFix", "alternatives"}))
            /\ UNCHANGED locals
       ELSE IF Len(questions) > MAX_QUESTIONS
       THEN /\ Returned(ResearchError("MAX_QUESTIONS", {"code", "message", "howToFix"}))
            /\ UNCHANGED locals
       ELSE /\ locals' = [questions |-> questions, results |-> << >>,
                            tokensPerQuestion |->
                                calculateTokenAllocation(Len(questions), TOKEN_BUDGET_RESEARCH)]
            /\ pc' = "init_client"
            /\ UNCHANGED <<outcome, result>>
    /\ UNCHANGED <<tool, params, pm, sent, calls, raised, tokens>>

\* new ResearchClient() inside its try block.
ResearchInitClient ==
    /\ tool = "deep_research" /\ pc = "init_client"
    /\ calls' = Called("ResearchClient")
    /\ \/ /\ pc' = "init_files"
          /\ UNCHANGED <<raised, outcome, result>>
       \/ /\ raised' = TRUE
          /\ Returned(ResearchError("CLIENT_INIT_FAILED",
                                    {"code", "message", "howToFix", "alternatives"}))
    /\ UNCHANGED <<tool, params, locals, pm, sent, tokens>>

\* new FileAttachmentService(), outside any try block, and the call of pMap.
ResearchInitFiles ==
    /\ tool = "deep_research" /\ pc = "init_files"
    /\ calls' = Called("FileAttachmentService")
    /\ \/ /\ pm' = PMapBegin(Len(locals.questions))
          /\ pc' = "research"
          /\ UNCHANGED <<raised, outcome, result>>
       \/ /\ raised' = TRUE
          /\ \E e \in CollaboratorErrors : Thrown(e)
          /\ UNCHANGED pm
    /\ UNCHANGED <<tool, params, locals, sent, tokens>>

\* pMap starts the callback of the next question: it awaits formatAttachments
\* when the question has attachments, and client.research otherwise.
QuestionStart ==
    /\ tool = "deep_research" /\ pc = "research"
    /\ PMapStartable(Len(locals.questions), RESEARCH_CONCURRENCY)
    /\ IF locals.questions[pm.next].hasAttachments
       THEN /\ pm' = PMapStarted(pm.next, "formatAttachments")
            /\ calls' = Called("formatAttachments")
            /\ UNCHANGED tokens
       ELSE /\ pm' = PMapSubmits(PMapStarted(pm.next, "research"), pm.next)
            /\ calls' = Called("research")
            /\ tokens' = Append(tokens, locals.tokensPerQuestion)
    /\ UNCHANGED <<tool, pc, params, locals, sent, raised, outcome, result>>

\* formatAttachments settles for question i; a rejection is caught and the
\* question goes on without attachments.  Either way client.research is called.
AttachmentsSettled(i) ==
    /\ tool = "deep_research" /\ pc = "research"
    /\ i \in InFlight("formatAttachments")
    /\ pm' = PMapSubmits(PMapAwaits(i, "research"), i)
    /\ calls' = Called("research")
    /\ tokens' = Append(tokens, locals.tokensPerQuestion)
    /\ \E rejected \in BOOLEAN : raised' = (raised \/ rejected)
    /\ UNCHANGED <<tool, pc, params, locals, sent, outcome, result>>

\* client.research settles for question i; a rejection is caught by the
\* callback's own try block.
ResearchSettled(i) ==
    /\ tool = "deep_research" /\ pc = "research"
    /\ i \in InFlight("research")
    /\ \E how \in ResearchOutcomes(Len(locals.questions)) :
         LET settled == ResearchCallback(locals.questions[i], how) IN
         /\ raised' = (raised \/ how = "raise")
         /\ IF settled.settled = "resolved"
            THEN /\ pm' = PMapSettles(i, settled.value)
                 /\ UNCHANGED <<pc, outcome, result>>
            ELSE /\ \E e \in CollaboratorErrors : Thrown(e)
                 /\ UNCHANGED pm
    /\ UNCHANGED <<tool, params, locals, sent, calls, tokens>>

\* results.push(...allResults): the results are the outputs of pMap, in
\* the order pMap resolves with.
CollectedAsSettled(n) == [k \in 1..n |-> pm.out[pm.order[k]]]
CollectedResults(n) == PMapOutput(n)

\* pMap resolves: the results are reported in the order of the outputs.
ResearchFinish ==
    /\ tool = "deep_research" /\ pc = "research"
    /\ PMapSettled(Len(locals.questions))
    /\ LET results == CollectedResults(Len(locals.questions)) IN
       /\ locals' = [locals EXCEPT !.results = results]
       /\ Returned(ResearchReport(locals.questions, results))
    /\ UNCHANGED <<tool, params, pm, sent, calls, raised, tokens>>

NextResearch ==
    \/ ResearchValidate
    \/ ResearchInitClient
    \/ ResearchInitFiles
    \/ QuestionStart
    \/ \E i \in DOMAIN pm.inflight : AttachmentsSettled(i)
    \/ \E i \in DOMAIN pm.inflight : ResearchSettled(i)
    \/ ResearchFinish

SpecResearch == InitResearch /\ [][NextResearch]_vars

(***************************************************************************)
(* handleWebSearch                                                         *)
(***************************************************************************)
MAX_QUERIES_SHOWN == 15

\* MAX_RESULTS_PER_QUERY
MaxResultsPerQueryAlwaysTen(totalKeywords) == 5 + 5

MaxResultsPerQuery(totalKeywords) == IF totalKeywords > 10 THEN 5 ELSE 10

\* params of handleWebSearch: keywords may be missing.  Short lists are
\* enumerated in full; long lists stand for calls with many keywords.
LongKeywordCounts == {10, 11, 15, 16}

SearchInputs ==
    { [hasKeywords |-> FALSE, keywords |-> << >>] }
    \cup { [hasKeywords |-> TRUE, keywords |-> [i \in 1..n |-> i]] :
             n \in (0..MaxKeywords) \cup LongKeywordCounts }

\* The result links one search may come back with.
SearchResultLists == { << >>, <<1>>, <<2>>, <<1, 2>>, <<2, 1>> }

\* For long keyword lists every search comes back with the same links.
LongResultCounts == {0, 5, 6, 10, 11}

\* What searchMultiple may resolve with: one search per keyword.
SearchResponses(keywords) ==
    IF Len(keywords) <= MaxKeywords
    THEN { [totalKeywords |-> Len(keywords),
            searches |-> [i \in 1..Len(keywords) |->
                             [keyword |-> keywords[i], results |-> r[i]]]] :
             r \in [1..Len(keywords) -> SearchResultLists] }
    ELSE { [totalKeywords |-> Len(keywords),
            searches |-> [i \in 1..Len(keywords) |->
                             [keyword |-> keywords[i], results |-> [k \in 1..n |-> k]]]] :
             n \in LongResultCounts }

\* utils/url-aggregator.js: the URLs of all searches, each with the number of
\* searches it appears in, ranked by a frequency/position-weighted score.
SearchRange(s) == { s[k] : k \in 1..Len(s) }

UrlsOf(searches) == UNION { SearchRange(searches[i].results) : i \in 1..Len(searches) }

UrlFrequency(searches, u) ==
    Cardinality({ i \in 1..Len(searches) : u \in SearchRange(searches[i].results) })

RECURSIVE UrlScore(_, _, _)
UrlScore(searches, u, i) ==
    IF i > Len(searches) THEN 0
    ELSE LET results == searches[i].results
             here == IF u \in SearchRange(results)
                     THEN 12 - (CHOOSE k \in 1..Len(results) : results[k] = u)
                     ELSE 0
         IN here + UrlScore(searches, u, i + 1)

RECURSIVE RankUrls(_, _)
RankUrls(searches, urls) ==
    IF urls = {} THEN << >>
    ELSE LET best == CHOOSE u \in urls :
                        \A v \in urls :
                            \/ UrlScore(searches, u, 1) > UrlScore(searches, v, 1)
                            \/ /\ UrlScore(searches, u, 1) = UrlScore(searches, v, 1)
                               /\ u <= v
         IN <<[url |-> best, frequency |-> UrlFrequency(searches, best)]>>
                \o RankUrls(searches, urls \ {best})

\* The consensus thresholds the aggregation may settle on.
FrequencyThresholds == 1..3

aggregateAndRank(searches, threshold) ==
    [rankedUrls |-> RankUrls(searches, UrlsOf(searches)),
     frequencyThreshold |-> threshold,
     totalUniqueUrls |-> Cardinality(UrlsOf(searches))]

\* consensusUrls: the ranked URLs that reach the frequency threshold.
ConsensusUrlsAboveThreshold(aggregation) ==
    SelectSeq(aggregation.rankedUrls,
              LAMBDA u : u.frequency > aggregation.frequencyThreshold)

ConsensusUrls(aggregation) ==
    SelectSeq(aggregation.rankedUrls,
              LAMBDA u : u.frequency >= aggregation.frequencyThreshold)

\* slice(0, n)
Slice(s, n) == SubSeq(s, 1, Min(Len(s), n))

\* topConsensusUrls: the URLs the next-steps section tells the caller to scrape.
TopConsensusUrls(aggregation) ==
    LET consensusUrls == ConsensusUrls(aggregation)
        top == IF Len(consensusUrls) > 0 THEN Slice(consensusUrls, 5)
               ELSE Slice(aggregation.rankedUrls, 5)
    IN [k \in 1..Len(top) |-> top[k].url]

\* queriesToShow and, for each, the results the forEach loops list.
QueriesToShow(searches) == Slice(searches, MAX_QUERIES_SHOWN)

ListedQueries(response) ==
    LET queriesToShow == QueriesToShow(response.searches)
    IN [i \in 1..Len(queriesToShow) |->
           [keyword |-> queriesToShow[i].keyword,
            results |-> Slice(queriesToShow[i].results,
                              MaxResultsPerQuery(response.totalKeywords))]]

\* The counter totalResults after the loops: one increment per listed result
\* of the first MAX_QUERIES_SHOWN searches, each cut to MAX_RESULTS_PER_QUERY.
RECURSIVE ListedResults(_, _, _)
ListedResults(searches, i, perQuery) ==
    IF i > Min(Len(searches), MAX_QUERIES_SHOWN) THEN 0
    ELSE Min(Len(searches[i].results), perQuery) + ListedResults(searches, i + 1, perQuery)

\* The closing note of the per-query section.
OmittedNote(searches) ==
    LET queriesOmitted == Len(searches) - Len(QueriesToShow(searches))
    IN IF queriesOmitted > 0
       THEN [shown |-> TRUE, additional |-> queriesOmitted, all |-> Len(searches)]
       ELSE [shown |-> FALSE, additional |-> 0, all |-> 0]

WebSearchReport(response, aggregation) ==
    [content |-> [kind |-> "markdown",
                  consensus |-> ConsensusUrls(aggregation),
                  queries |-> ListedQueries(response),
                  note |-> OmittedNote(response.searches),
                  scrape |-> TopConsensusUrls(aggregation)],
     structuredContent |->
        [kind |-> "report",
         metadata |->
            [total_keywords |-> response.totalKeywords,
             total_results  |-> ListedResults(response.searches, 1,
                                              MaxResultsPerQuery(response.totalKeywords)),
             total_unique_urls |-> aggregation.totalUniqueUrls,
             consensus_url_count |-> Len(ConsensusUrls(aggregation)),
             frequency_threshold |-> aggregation.frequencyThreshold]]]

\* The value the catch block returns once params.keywords.length is read.
WebSearchErrorPayload(e) ==
    [content |-> formatError(classifyError(e).code, "web_search",
                             {"code", "message", "retryable", "howToFix", "alternatives"}),
     structuredContent |->
        [kind |-> "error",
         metadata |-> [total_keywords |-> Len(params.keywords), total_results |-> 0,
                       errorCode |-> classifyError(e).code]]]

InitSearch ==
    /\ tool = "web_search"
    /\ pc = "start"
    /\ params \in SearchInputs
    /\ locals = NoLocals
    /\ pm = PMapIdle
    /\ sent = << >>
    /\ calls = NoCalls
    /\ raised = FALSE
    /\ outcome = "running"
    /\ result = NoResult
    /\ tokens = << >>

\* The try block up to the await: params.keywords.length is read for the
\* log line, the client is constructed and searchMultiple is called.
WebSearchBegin ==
    /\ tool = "web_search" /\ pc = "start"
    /\ IF ~params.hasKeywords
       THEN /\ locals' = [error |-> TypeError]
            /\ raised' = TRUE
            /\ pc' = "catch"
            /\ UNCHANGED <<sent, calls>>
       ELSE \/ /\ calls' = [calls EXCEPT !["SearchClient"] = @ + 1,
                                         !["searchMultiple"] = @ + 1]
               /\ sent' = params.keywords
               /\ pc' = "searching"
               /\ UNCHANGED <<locals, raised>>
            \/ /\ calls' = Called("SearchClient")
               /\ \E e \in CollaboratorErrors : locals' = [error |-> e]
               /\ raised' = TRUE
               /\ pc' = "catch"
               /\ UNCHANGED sent
    /\ UNCHANGED <<tool, params, pm, outcome, result, tokens>>

\* searchMultiple resolves: aggregation and the report, or a helper raises.
WebSearchResolved ==
    /\ tool = "web_search" /\ pc = "searching"
    /\ calls' = Called("aggregate")
    /\ \/ /\ \E response \in SearchResponses(params.keywords), t \in FrequencyThresholds :
               LET aggregation == aggregateAndRank(response.searches, t)
               IN /\ locals' = [response |-> response, aggregation |-> aggregation]
                  /\ Returned(WebSearchReport(response, aggregation))
          /\ UNCHANGED raised
       \/ /\ \E e \in CollaboratorErrors : locals' = [error |-> e]
          /\ raised' = TRUE
          /\ pc' = "catch"
          /\ UNCHANGED <<outcome, result>>
    /\ UNCHANGED <<tool, params, pm, sent, tokens>>

\* searchMultiple rejects.
WebSearchRejected ==
    /\ tool = "web_search" /\ pc = "searching"
    /\ \E e \in CollaboratorErrors : locals' = [error |-> e]
    /\ raised' = TRUE
    /\ pc' = "catch"
    /\ UNCHANGED <<tool, params, pm, sent, calls, outcome, result, tokens>>

\* The catch block: it reads params.keywords.length for the metadata, which
\* raises again, outside any try block, when keywords is missing.
WebSearchCatch ==
    /\ tool = "web_search" /\ pc = "catch"
    /\ IF params.hasKeywords
       THEN Returned(WebSearchErrorPayload(locals.error))
       ELSE Thrown(TypeError)
    /\ UNCHANGED <<tool, params, locals, pm, sent, calls, raised, tokens>>

NextSearch ==
    \/ WebSearchBegin
    \/ WebSearchResolved
    \/ WebSearchRejected
    \/ WebSearchCatch

SpecSearch == InitSearch /\ [][NextSearch]_vars

(***************************************************************************)
(* handleSearchReddit                                                      *)
(***************************************************************************)
\* queries of handleSearchReddit: the list may be missing.  Long lists come
\* back with the same number of results for every query.
SearchRedditInputs ==
    { [hasQueries |-> FALSE, queries |-> << >>] }
    \cup { [hasQueries |-> TRUE, queries |-> [i \in 1..n |-> i]] :
             n \in (0..MaxPosts) \cup {REDDIT_QUERY_LIMIT, REDDIT_QUERY_LIMIT + 1} }

\* queries.slice(0, 50)
LimitedToAll(queries) == queries

Limited(queries) == SubSeq(queries, 1, Min(Len(queries), REDDIT_QUERY_LIMIT))

\* What searchRedditMultiple may resolve with: per query, in order, the
\* number of items found.
RedditSearchResults(limited) ==
    IF Len(limited) <= MaxPosts
    THEN [1..Len(limited) -> {0, 1}]
    ELSE { [i \in 1..Len(limited) |-> k] : k \in {0, 1} }

RECURSIVE SumSeq(_, _)
SumSeq(f, i) == IF i > Len(f) THEN 0 ELSE f[i] + SumSeq(f, i + 1)

\* The catch block of handleSearchReddit.
SearchRedditCatchRethrows(e) == [outcome |-> "thrown", value |-> [kind |-> "exception", error |-> e]]
SearchRedditCatch(e) ==
    [outcome |-> "returned",
     value   |-> formatError(classifyError(e).code, "search_reddit",
                             {"code", "message", "retryable", "howToFix", "alternatives"})]

\* How a handler ends with what its catch block made of the exception.
Caught(c) == /\ outcome' = c.outcome
             /\ result' = c.value
             /\ pc' = "done"

InitSearchReddit ==
    /\ tool = "search_reddit"
    /\ pc = "start"
    /\ params \in SearchRedditInputs
    /\ locals = NoLocals
    /\ pm = PMapIdle
    /\ sent = << >>
    /\ calls = NoCalls
    /\ raised = FALSE
    /\ outcome = "running"
    /\ result = NoResult
    /\ tokens = << >>

\* The try block up to the await: the slice, the client, the call.
SearchRedditBegin ==
    /\ tool = "search_reddit" /\ pc = "start"
    /\ IF ~params.hasQueries
       THEN /\ Caught(SearchRedditCatch(TypeError))
            /\ UNCHANGED <<locals, sent, calls, raised>>
       ELSE \/ /\ locals' = [limited |-> Limited(params.queries)]
               /\ calls' = [calls EXCEPT !["SearchClient"] = @ + 1,
                                         !["searchRedditMultiple"] = @ + 1]
               /\ sent' = Limited(params.queries)
               /\ pc' = "searching"
               /\ UNCHANGED <<raised, outcome, result>>
            \/ /\ calls' = Called("SearchClient")
               /\ raised' = TRUE
               /\ \E e \in CollaboratorErrors : Caught(SearchRedditCatch(e))
               /\ UNCHANGED <<locals, sent>>
    /\ UNCHANGED <<tool, params, pm, tokens>>

\* searchRedditMultiple resolves: NO_RESULTS when nothing was found, else
\* the aggregation and the enhanced report (or a helper raises).
SearchRedditResolved ==
    /\ tool = "search_reddit" /\ pc = "searching"
    /\ \E results \in RedditSearchResults(locals.limited) :
         /\ locals' = [limited |-> locals.limited, results |-> results]
         /\ IF SumSeq(results, 1) = 0
            THEN /\ Returned(formatError("NO_RESULTS", "search_reddit",
                                         {"code", "message", "howToFix", "alternatives"}))
                 /\ UNCHANGED <<calls, raised>>
            ELSE /\ calls' = Called("aggregate")
                 /\ \/ /\ Returned([kind |-> "enhanced_output", queries |-> locals.limited,
                                    totalResults |-> SumSeq(results, 1)])
                       /\ UNCHANGED raised
                    \/ /\ raised' = TRUE
                       /\ \E e \in CollaboratorErrors : Caught(SearchRedditCatch(e))
    /\ UNCHANGED <<tool, params, pm, sent, tokens>>

\* searchRedditMultiple rejects.
SearchRedditRejected ==
    /\ tool = "search_reddit" /\ pc = "searching"
    /\ raised' = TRUE
    /\ \E e \in CollaboratorErrors : Caught(SearchRedditCatch(e))
    /\ UNCHANGED <<tool, params, locals, pm, sent, calls, tokens>>

(***************************************************************************)
(* handleGetRedditPosts                                                    *)
(***************************************************************************)
\* urls and options of handleGetRedditPosts: urls may be missing.  Long
\* lists are fetched without LLM extraction.
GetPostsInputs ==
    { [hasUrls |-> FALSE, urls |-> << >>, use_llm |-> FALSE] }
    \cup { [hasUrls |-> TRUE, urls |-> [i \in 1..n |-> i], use_llm |-> l] :
             n \in 0..MaxPosts, l \in BOOLEAN }
    \cup { [hasUrls |-> TRUE, urls |-> [i \in 1..n |-> i], use_llm |-> FALSE] :
             n \in {REDDIT_MAX_POSTS, REDDIT_MAX_POSTS + 1} }

\* What batchGetPosts may resolve with: per URL, in order, a post or an Error.
BatchResults(urls) ==
    IF Len(urls) <= MaxPosts
    THEN { [i \in 1..Len(urls) |-> [url |-> urls[i], kind |-> k[i]]] :
             k \in [1..Len(urls) -> {"post", "error"}] }
    ELSE { [i \in 1..Len(urls) |-> [url |-> urls[i], kind |-> k]] : k \in {"post", "error"} }

\* The catch block of handleGetRedditPosts.
GetPostsCatchRethrows(e) == [outcome |-> "thrown", value |-> [kind |-> "exception", error |-> e]]
GetPostsCatch(e) ==
    [outcome |-> "returned",
     value   |-> formatError(classifyError(e).code, "get_reddit_post",
                             {"code", "message", "retryable", "howToFix", "alternatives"})]

\* The verdict of the count validation: the error code, or "ok".
GetPostsValidationIgnoresMin(n) == IF n > REDDIT_MAX_POSTS THEN "MAX_POSTS" ELSE "ok"
GetPostsValidation(n) ==
    IF n < REDDIT_MIN_POSTS THEN "MIN_POSTS"
    ELSE IF n > REDDIT_MAX_POSTS THEN "MAX_POSTS"
    ELSE "ok"

\* tokensPerUrl of handleGetRedditPosts.
RedditTokensPerUrlUnsplit(use_llm, n) == IF use_llm THEN TOKEN_BUDGET_RESEARCH ELSE 0
RedditTokensPerUrl(use_llm, n) == IF use_llm THEN TOKEN_BUDGET_RESEARCH \div n ELSE 0

\* The loop over the results from locals.i on, up to the next await of
\* processContentWithLLM or the end of the results.
RECURSIVE PostsLoop(_)
PostsLoop(l) ==
    IF l.i > Len(l.results) THEN l
    ELSE IF l.results[l.i].kind = "error"
    THEN PostsLoop([l EXCEPT !.failed = @ + 1,
                             !.contents = Append(@, [url |-> l.results[l.i].url, form |-> "failed"]),
                             !.i = @ + 1])
    ELSE IF params.use_llm /\ l.llmProcessor # "null"
    THEN [l EXCEPT !.successful = @ + 1, !.awaiting = TRUE]
    ELSE PostsLoop([l EXCEPT !.successful = @ + 1,
                             !.contents = Append(@, [url |-> l.results[l.i].url, form |-> "post"]),
                             !.i = @ + 1])

GetPostsReport(l) ==
    [kind |-> "success_report", title |-> "Reddit Posts Fetched",
     totalItems |-> Len(params.urls), successful |-> l.successful, failed |-> l.failed,
     llmErrors |-> l.llmErrors, data |-> l.contents]

\* The loop went on to l: it awaits the next extraction, or the report is returned.
PostsContinue(l, called) ==
    /\ locals' = l
    /\ IF l.awaiting
       THEN /\ pc' = "extracting"
            /\ calls' = [called EXCEPT !["processContentWithLLM"] = @ + 1]
            /\ tokens' = Append(tokens, l.tokensPerUrl)
            /\ UNCHANGED <<outcome, result>>
       ELSE /\ Returned(GetPostsReport(l))
            /\ calls' = called
            /\ UNCHANGED tokens

InitGetPosts ==
    /\ tool = "get_reddit_post"
    /\ pc = "start"
    /\ params \in GetPostsInputs
    /\ locals = NoLocals
    /\ pm = PMapIdle
    /\ sent = << >>
    /\ calls = NoCalls
    /\ raised = FALSE
    /\ outcome = "running"
    /\ result = NoResult
    /\ tokens = << >>

\* The try block up to the await: the count validation, the client, the call.
GetPostsBegin ==
    /\ tool = "get_reddit_post" /\ pc = "start"
    /\ IF ~params.hasUrls
       THEN /\ Caught(GetPostsCatch(TypeError))
            /\ UNCHANGED <<sent, calls>>
       ELSE IF GetPostsValidation(Len(params.urls)) = "MIN_POSTS"
       THEN /\ Returned(formatError("MIN_POSTS", "get_reddit_post",
                                    {"code", "message", "howToFix", "alternatives"}))
            /\ UNCHANGED <<sent, calls>>
       ELSE IF GetPostsValidation(Len(params.urls)) = "MAX_POSTS"
       THEN /\ Returned(formatError("MAX_POSTS", "get_reddit_post",
                                    {"code", "message", "howToFix"}))
            /\ UNCHANGED <<sent, calls>>
       ELSE /\ calls' = [calls EXCEPT !["RedditClient"] = @ + 1, !["batchGetPosts"] = @ + 1]
            /\ sent' = params.urls
            /\ pc' = "fetching"
            /\ UNCHANGED <<outcome, result>>
    /\ UNCHANGED <<tool, params, locals, pm, raised, tokens>>

\* batchGetPosts resolves: the LLM processor is created when asked for, and
\* the loop runs to its first await or to the report.
GetPostsFetched ==
    /\ tool = "get_reddit_post" /\ pc = "fetching"
    /\ \E results \in BatchResults(params.urls) :
         \/ /\ \E p \in (IF params.use_llm THEN {"processor", "null"} ELSE {"null"}) :
                 PostsContinue(PostsLoop([results |-> results, llmProcessor |-> p, i |-> 1,
                                          tokensPerUrl |->
                                              RedditTokensPerUrl(params.use_llm, Len(params.urls)),
                                          successful |-> 0, failed |-> 0, llmErrors |-> 0,
                                          contents |-> << >>, awaiting |-> FALSE]),
                               IF params.use_llm THEN Called("createLLMProcessor") ELSE calls)
            /\ UNCHANGED raised
         \/ /\ params.use_llm
            /\ calls' = Called("createLLMProcessor")
            /\ raised' = TRUE
            /\ \E e \in CollaboratorErrors : Caught(GetPostsCatch(e))
            /\ UNCHANGED <<locals, tokens>>
    /\ UNCHANGED <<tool, params, pm, sent>>

\* batchGetPosts rejects.
GetPostsRejected ==
    /\ tool = "get_reddit_post" /\ pc = "fetching"
    /\ raised' = TRUE
    /\ \E e \in CollaboratorErrors : Caught(GetPostsCatch(e))
    /\ UNCHANGED <<tool, params, locals, pm, sent, calls, tokens>>

\* processContentWithLLM resolves for the post at locals.i, processed or
\* not, and the loop goes on.
ExtractionResolved ==
    /\ tool = "get_reddit_post" /\ pc = "extracting"
    /\ LET url == locals.results[locals.i].url IN
       \E processed \in BOOLEAN :
         PostsContinue(PostsLoop(
            [locals EXCEPT !.llmErrors = IF processed THEN @ ELSE @ + 1,
                           !.contents = Append(@, [url |-> url,
                                                   form |-> IF processed THEN "llm" ELSE "post"]),
                           !.awaiting = FALSE,
                           !.i = @ + 1]), calls)
    /\ UNCHANGED <<tool, params, pm, sent, raised>>

\* processContentWithLLM rejects.
ExtractionRejected ==
    /\ tool = "get_reddit_post" /\ pc = "extracting"
    /\ raised' = TRUE
    /\ \E e \in CollaboratorErrors : Caught(GetPostsCatch(e))
    /\ UNCHANGED <<tool, params, locals, pm, sent, calls, tokens>>

InitReddit == InitSearchReddit \/ InitGetPosts

NextReddit ==
    \/ SearchRedditBegin
    \/ SearchRedditResolved
    \/ SearchRedditRejected
    \/ GetPostsBegin
    \/ GetPostsFetched
    \/ GetPostsRejected
    \/ ExtractionResolved
    \/ ExtractionRejected

SpecReddit == InitReddit /\ [][NextReddit]_vars

(***************************************************************************)
(* The Workers entry point: ResearchMcpPowerpack.init registers one        *)
(* callback per tool of the registry; the MCP server then invokes them.    *)
(***************************************************************************)
\* The tools of toolRegistry, by name.
ToolNames == <<"search_reddit", "get_reddit_post", "deep_research", "scrape_links", "web_search">>

\* What executeTool may raise: Error objects, or a value that is no Error.
\* `string` is String(value).
ThrownValues ==
    { [instanceOfError |-> TRUE, message |-> "Unknown tool", string |-> "Error: Unknown tool"],
      [instanceOfError |-> TRUE, message |-> "Invalid arguments",
       string |-> "Error: Invalid arguments"],
      [instanceOfError |-> FALSE, message |-> "undefined", string |-> "aborted"] }

\* How executeTool may end: with a tool result, or by raising.
ExecuteToolOutcomes ==
    { [how |-> "returned",
       value |-> [isError |-> b, content |-> << [type |-> "text", text |-> "report"] >>]] :
        b \in BOOLEAN }
    \cup { [how |-> "raised", value |-> x] : x \in ThrownValues }

NotExecuted == [how |-> "none"]

\* error instanceof Error ? error.message : String(error)
ErrorText(x) == IF x.instanceOfError THEN x.message ELSE x.string

\* The registered callback: the try block around executeTool and its catch.
ToolCallbackRethrows(executed) ==
    IF executed.how = "returned"
    THEN [outcome |-> "returned", value |-> executed.value]
    ELSE [outcome |-> "thrown", value |-> [kind |-> "exception", error |-> executed.value]]
ToolCallback(executed) ==
    IF executed.how = "returned"
    THEN [outcome |-> "returned", value |-> executed.value]
    ELSE [outcome |-> "returned",
          value |-> [isError |-> TRUE,
                     content |-> << [type |-> "text",
                                     text |-> "Error: " \o ErrorText(executed.value)] >>]]

\* The environment keys the capabilities are read from.
CapabilityKeys ==
    {"OPENROUTER_API_KEY", "SERPER_API_KEY", "SCRAPEDO_API_KEY",
     "REDDIT_CLIENT_ID", "REDDIT_CLIENT_SECRET"}

\* The keys bridgeEnv copies (those of them the capabilities are read from).
BridgedKeys ==
    {"OPENROUTER_API_KEY", "SERPER_API_KEY", "SCRAPEDO_API_KEY",
     "REDDIT_CLIENT_ID", "REDDIT_CLIENT_SECRET"}

\* process.env when the config module is loaded, as the set of keys with a
\* non-empty value.
LoadEnvs ==
    { {}, {"OPENROUTER_API_KEY"}, {"REDDIT_CLIENT_ID"}, CapabilityKeys }

\* The Worker env bindings: per key unset, a non-empty string, or a binding
\* that is no string.
WorkerEnvs == [CapabilityKeys -> {"unset", "string", "object"}]

\* bridgeEnv: the string bindings of the listed keys are copied into
\* process.env; what process.env held before stays.
bridgeEnv(processEnv, env) ==
    processEnv \cup {k \in BridgedKeys : env[k] = "string"}

\* parseEnv: read from process.env at the time of the call.
parseEnv(processEnv) ==
    [SCRAPER_API_KEY      |-> "SCRAPEDO_API_KEY" \in processEnv,
     SEARCH_API_KEY       |-> "SERPER_API_KEY" \in processEnv,
     REDDIT_CLIENT_ID     |-> "REDDIT_CLIENT_ID" \in processEnv,
     REDDIT_CLIENT_SECRET |-> "REDDIT_CLIENT_SECRET" \in processEnv]

\* RESEARCH.API_KEY: process.env.OPENROUTER_API_KEY || '', evaluated once,
\* when the config module is loaded.
ResearchApiKey(loadEnv) == "OPENROUTER_API_KEY" \in loadEnv

\* getCapabilities: parseEnv() now, RESEARCH as it was loaded.
getCapabilities(processEnv, researchApiKey) ==
    LET env == parseEnv(processEnv) IN
    [reddit        |-> env.REDDIT_CLIENT_ID /\ env.REDDIT_CLIENT_SECRET,
     search        |-> env.SEARCH_API_KEY,
     scraping      |-> env.SCRAPER_API_KEY,
     deepResearch  |-> researchApiKey,
     llmExtraction |-> researchApiKey]

NoCapabilities == [none |-> TRUE]

InitWorker ==
    /\ tool = "worker"
    /\ pc = "boot"
    /\ params = [name |-> "none"]
    /\ \E loadEnv \in LoadEnvs, env \in WorkerEnvs :
         locals = [registered |-> << >>, served |-> 0, executed |-> NotExecuted,
                   env |-> env, processEnv |-> loadEnv,
                   researchApiKey |-> ResearchApiKey(loadEnv),
                   capabilities |-> NoCapabilities]
    /\ pm = PMapIdle
    /\ sent = << >>
    /\ calls = NoCalls
    /\ raised = FALSE
    /\ outcome = "running"
    /\ result = NoResult
    /\ tokens = << >>

\* The head of init: bridgeEnv(this.env), which ends with resetEnvCache(),
\* and getCapabilities().  The config module exports no resetEnvCache: where
\* the build binds the import to undefined the call raises a TypeError and
\* init rejects; otherwise it returns and changes nothing the capabilities
\* are read from.
WorkerBridge ==
    /\ tool = "worker" /\ pc = "boot"
    /\ LET bridged == bridgeEnv(locals.processEnv, locals.env) IN
       \/ /\ locals' = [locals EXCEPT !.processEnv = bridged,
                                       !.capabilities =
                                           getCapabilities(bridged, locals.researchApiKey)]
          /\ pc' = "init"
          /\ UNCHANGED <<raised, outcome, result>>
       \/ /\ locals' = [locals EXCEPT !.processEnv = bridged]
          /\ raised' = TRUE
          /\ outcome' = "thrown"
          /\ result' = [kind |-> "exception", error |-> TypeError]
          /\ pc' = "init_failed"
    /\ UNCHANGED <<tool, params, pm, sent, calls, tokens>>

\* One turn of the loop of init: this.server.tool(name, ...).
WorkerRegister ==
    /\ tool = "worker" /\ pc = "init"
    /\ LET registered == Append(locals.registered, ToolNames[Len(locals.registered) + 1]) IN
       /\ locals' = [locals EXCEPT !.registered = registered]
       /\ pc' = IF Len(registered) = Len(ToolNames) THEN "idle" ELSE "init"
    /\ UNCHANGED <<tool, params, pm, sent, calls, raised, outcome, result, tokens>>

\* The MCP server invokes the callback of a registered tool, which calls
\* executeTool.
WorkerInvoke ==
    /\ tool = "worker" /\ pc \in {"idle", "done"}
    /\ locals.served < MaxInvocations
    /\ \E i \in 1..Len(locals.registered) : params' = [name |-> locals.registered[i]]
    /\ locals' = [locals EXCEPT !.executed = NotExecuted]
    /\ calls' = Called("executeTool")
    /\ pc' = "executing"
    /\ outcome' = "running"
    /\ result' = NoResult
    /\ UNCHANGED <<tool, pm, sent, raised, tokens>>

\* executeTool settles and the callback ends.
WorkerExecuted ==
    /\ tool = "worker" /\ pc = "executing"
    /\ \E executed \in ExecuteToolOutcomes :
         /\ locals' = [locals EXCEPT !.executed = executed, !.served = @ + 1]
         /\ raised' = (executed.how = "raised")
         /\ Caught(ToolCallback(executed))
    /\ UNCHANGED <<tool, params, pm, sent, calls, tokens>>

NextWorker ==
    \/ WorkerBridge
    \/ WorkerRegister
    \/ WorkerInvoke
    \/ WorkerExecuted

SpecWorker == InitWorker /\ [][NextWorker]_vars

(***************************************************************************)
(* The whole model: one handler invocation, or the Workers agent.          *)
(***************************************************************************)
Init == InitScrape \/ InitResearch \/ InitSearch \/ InitReddit \/ InitWorker

Next == NextScrape \/ NextResearch \/ NextSearch \/ NextReddit \/ NextWorker

Spec == Init /\ [][Next]_vars

(***************************************************************************)
(* Properties                                                              *)
(***************************************************************************)
\* The value a handler with a {content, structuredContent} result returns.
IsToolResult(v) == "content" \in DOMAIN v /\ "structuredContent" \in DOMAIN v

\* C1: handleScrapeLinks never throws: whatever its collaborators do, the
\* call ends with a value {content, structuredContent} and no exception
\* reaches the caller.
C1_ScrapeNeverThrows ==
    (tool = "scrape_links" /\ pc = "done")
        => (outcome = "returned" /\ IsToolResult(result))

\* C2: handleDeepResearch never throws: whatever the constructors, the
\* attachment formatter and client.research do, the call ends with a value
\* {content, structuredContent} and no exception reaches the caller.
C2_ResearchNeverThrows ==
    (tool = "deep_research" /\ pc = "done")
        => (IsToolResult(result) /\ outcome = "returned")

\* C3: handleWebSearch never throws, also when params.keywords is missing;
\* when a step of the try block raised, the returned metadata has
\* total_results = 0 and an errorCode.
C3_WebSearchNeverThrows ==
    (tool = "web_search" /\ pc = "done")
        => /\ outcome = "returned"
           /\ IsToolResult(result)
           /\ raised => /\ result.structuredContent.metadata.total_results = 0
                        /\ "errorCode" \in DOMAIN result.structuredContent.metadata

\* C4: handleSearchReddit and handleGetRedditPosts never throw: each ends by
\* returning a string, which is a formatError report whenever a collaborator
\* raised.
C4_RedditNeverThrows ==
    (tool \in {"search_reddit", "get_reddit_post"} /\ pc = "done")
        => /\ outcome = "returned"
           /\ result.kind \in {"error_report", "success_report", "enhanced_output"}
           /\ raised => result.kind = "error_report"

\* A Reddit post fetch whose LLM extraction raised, after an extraction call
\* was made, and which ended.
C4_Witness ==
    /\ tool = "get_reddit_post" /\ pc = "done"
    /\ raised
    /\ calls["processContentWithLLM"] > 0
    /\ locals.successful > 0

\* C5: every registered tool callback of the Workers entry point returns a
\* result for every invocation: when executeTool raises, the result has
\* isError = TRUE and the single text item "Error: <message>", and nothing
\* propagates to the MCP server.
C5_CallbackAlwaysReturns ==
    (tool = "worker" /\ pc = "done")
        => /\ outcome = "returned"
           /\ locals.executed.how = "returned" => result = locals.executed.value
           /\ locals.executed.how = "raised" =>
                /\ result.isError = TRUE
                /\ Len(result.content) = 1
                /\ result.content[1].type = "text"
                /\ result.content[1].text =
                     (IF locals.executed.value.instanceOfError
                      THEN "Error: " \o locals.executed.value.message
                      ELSE "Error: " \o locals.executed.value.string)

\* A callback invocation in which executeTool raised a value that is no Error.
C5_Witness ==
    /\ tool = "worker" /\ pc = "done"
    /\ locals.executed.how = "raised"
    /\ ~locals.executed.value.instanceOfError

\* The LLM pass of handleScrapeLinks ran to its end.
LLMPassDone ==
    /\ pc \in {"assemble", "done"}
    /\ pm # PMapIdle
    /\ outcome # "thrown"

\* C6: in the LLM pass of handleScrapeLinks at most 3 processContentWithLLM
\* calls are in flight at any moment, no item is submitted twice, and once
\* the pass is over every successful item has been submitted exactly once.
C6_LLMPassBounded ==
    tool = "scrape_links"
        => /\ Cardinality(InFlight("processContentWithLLM")) <= 3
           /\ \A i \in DOMAIN pm.submitted : pm.submitted[i] <= 1
           /\ LLMPassDone =>
                /\ DOMAIN pm.submitted = 1..locals.successful
                /\ \A i \in 1..locals.successful : pm.submitted[i] = 1
                /\ calls["processContentWithLLM"] = locals.successful

\* Three extractions in flight while a further item waits for a slot.
C6_Witness ==
    /\ tool = "scrape_links" /\ pc = "llm"
    /\ Cardinality(InFlight("processContentWithLLM")) = 3
    /\ pm.next <= Len(locals.successItems)
    /\ DOMAIN pm.out # {}

\* C7: during handleDeepResearch, for 1 to 10 questions, at most 3
\* client.research calls are in flight at any moment, no question is
\* submitted twice, and when the report is returned every question has been
\* submitted to client.research exactly once.
C7_ResearchBounded ==
    tool = "deep_research"
        => /\ Cardinality(InFlight("research")) <= 3
           /\ \A i \in DOMAIN pm.submitted : pm.submitted[i] <= 1
           /\ (pc = "done" /\ pm # PMapIdle) =>
                /\ DOMAIN pm.submitted = 1..Len(params.questions)
                /\ \A i \in 1..Len(params.questions) : pm.submitted[i] = 1
                /\ calls["research"] = Len(params.questions)

\* Ten questions, three research calls in flight, one settled, others waiting.
C7_Witness ==
    /\ tool = "deep_research" /\ pc = "research"
    /\ Len(params.questions) = 10
    /\ Cardinality(InFlight("research")) = 3
    /\ pm.next <= 10
    /\ DOMAIN pm.out # {}

\* The handler ended with the validation error `code`.
ResearchRejectedWith(code) ==
    /\ outcome = "returned"
    /\ result.structuredContent.kind = "error"
    /\ result.content.code = code

ResearchValidationError ==
    /\ outcome = "returned"
    /\ result.structuredContent.kind = "error"
    /\ result.content.code \in {"MIN_QUESTIONS", "MAX_QUESTIONS"}

NoRedditWork ==
    /\ calls["RedditClient"] = 0
    /\ calls["batchGetPosts"] = 0
    /\ calls["createLLMProcessor"] = 0
    /\ calls["processContentWithLLM"] = 0
    /\ sent = << >>

\* C9: handleGetRedditPosts validates the URL count before any external
\* work: fewer than 2 URLs end in a MIN_POSTS error and more than 50 in a
\* MAX_POSTS error, with no RedditClient, no fetch and no LLM call; with 2 to
\* 50 URLs batchGetPosts is called exactly once, with all the URLs.
C9_PostCountValidated ==
    (tool = "get_reddit_post" /\ params.hasUrls)
        => LET n == Len(params.urls) IN
           /\ (n < 2 \/ n > 50) => NoRedditWork
           /\ (pc = "done" /\ n < 2) =>
                (outcome = "returned" /\ result.kind = "error_report" /\ result.code = "MIN_POSTS")
           /\ (pc = "done" /\ n > 50) =>
                (outcome = "returned" /\ result.kind = "error_report" /\ result.code = "MAX_POSTS")
           /\ (n >= 2 /\ n <= 50) =>
                IF pc = "start" THEN NoRedditWork
                ELSE calls["batchGetPosts"] = 1 /\ calls["RedditClient"] = 1 /\ sent = params.urls

\* Fifty URLs, fetched in one batch call and reported.
C9_Witness ==
    /\ tool = "get_reddit_post" /\ pc = "done"
    /\ Len(params.urls) = 50
    /\ calls["batchGetPosts"] = 1
    /\ Len(sent) = 50
    /\ result.kind = "success_report"

\* C10: handleScrapeLinks never passes more than SCRAPER.MAX_URLS (50) URLs
\* to ScraperClient.scrapeMultiple, whatever the length of params.urls.
C10_AtMostMaxUrlsScraped ==
    tool = "scrape_links" => Len(sent) <= SCRAPER_MAX_URLS

\* The five parts of the structured error payload.
ErrorReportParts == {"code", "message", "retryable", "howToFix", "alternatives"}

\* The report a handler returned: its content, or the string itself where
\* the handler returns a string.
ReportOf(v) == IF IsToolResult(v) THEN v.content ELSE v

\* C11: every error report a tool handler returns, on validation paths as on
\* failure paths, is built with all five parts: code, message, retryable,
\* howToFix and alternatives.
C11_ErrorReportsComplete ==
    (tool # "worker" /\ pc = "done" /\ outcome = "returned"
        /\ ReportOf(result).kind = "error_report")
        => ErrorReportParts \subseteq ReportOf(result).given

\* The token budget of the tool that runs.
BudgetOf(t) == IF t = "scrape_links" THEN TOKEN_BUDGET_SCRAPER ELSE TOKEN_BUDGET_RESEARCH

\* The per-item calls the invocation has issued.
ItemCalls == IF tool = "deep_research" THEN calls["research"]
             ELSE calls["processContentWithLLM"]

\* C12: in each batch handler every per-item LLM or research call of one
\* invocation gets the same max_tokens value, and that value times the
\* number of items that get a call never exceeds the tool's budget; in
\* handleGetRedditPosts the value is floor(budget / urls.length) with use_llm
\* and 0 (and no call) without.
C12_TokenBudgetSplit ==
    tool \in {"scrape_links", "deep_research", "get_reddit_post"}
        => /\ Len(tokens) = ItemCalls
           /\ \A i, j \in 1..Len(tokens) : tokens[i] = tokens[j]
           /\ \A i \in 1..Len(tokens) : tokens[i] * Len(tokens) <= BudgetOf(tool)
           /\ (tool = "get_reddit_post" /\ "tokensPerUrl" \in DOMAIN locals) =>
                LET v == locals.tokensPerUrl
                    n == Len(params.urls)
                IN IF params.use_llm
                   THEN v * n <= TOKEN_BUDGET_RESEARCH /\ TOKEN_BUDGET_RESEARCH < (v + 1) * n
                   ELSE v = 0 /\ tokens = << >>

\* Three Reddit posts, each extracted with a third of the budget.
C12_Witness ==
    /\ tool = "get_reddit_post" /\ pc = "done"
    /\ Len(params.urls) = 3
    /\ Len(tokens) = 3
    /\ tokens[3] = 10666

\* C13: after bridgeEnv has copied the Worker env bindings into process.env,
\* a getCapabilities call returns, for every capability, true exactly when
\* its key(s) are in the bridged process.env, also when they were absent at
\* the time the config module was loaded.
C13_CapabilitiesReflectBridgedEnv ==
    (tool = "worker" /\ pc \notin {"boot", "init_failed"})
        => LET env == locals.processEnv
               capabilities == locals.capabilities
           IN /\ capabilities.reddit
                    <=> {"REDDIT_CLIENT_ID", "REDDIT_CLIENT_SECRET"} \subseteq env
              /\ capabilities.search <=> "SERPER_API_KEY" \in env
              /\ capabilities.scraping <=> "SCRAPEDO_API_KEY" \in env
              /\ capabilities.deepResearch <=> "OPENROUTER_API_KEY" \in env
              /\ capabilities.llmExtraction <=> "OPENROUTER_API_KEY" \in env

\* handleDeepResearch went past validation and the constructors: the
\* questions were handed to pMap.
ResearchFannedOut == tool = "deep_research" /\ pm # PMapIdle

\* C14: failures are isolated per question in handleDeepResearch: whatever
\* subset of the research calls fails (error in the response, empty content,
\* an exception, attachments that cannot be processed), the call returns a
\* report, every question has been researched, the results list has N
\* entries, entry i fails exactly when question i's own call failed, and
\* successful + failed = totalQuestions = N.
C14_FailuresIsolated ==
    (ResearchFannedOut /\ pc = "done")
        => LET n == Len(params.questions)
               report == result.structuredContent
           IN /\ outcome = "returned"
              /\ report.kind = "report"
              /\ \A i \in 1..n : pm.submitted[i] = 1
              /\ Len(report.results) = n
              /\ \A i \in 1..n : report.results[i] = pm.out[i]
              /\ report.totalQuestions = n
              /\ report.successful + report.failed = n
              /\ report.successful =
                    Cardinality({i \in 1..n : report.results[i].success})

\* Three questions: one answered, one with an empty response, one whose
\* research call raised.
C14_Witness ==
    /\ ResearchFannedOut /\ pc = "done"
    /\ Len(params.questions) = 3
    /\ result.structuredContent.successful = 1
    /\ result.structuredContent.failed = 2
    /\ \E i, j \in 1..3 :
         /\ result.structuredContent.results[i].error = "structuredError.message"
         /\ result.structuredContent.results[j].error = "Empty response received"

(***************************************************************************)
(* The two handlers that fan out through pMap, run to their end: a step    *)
(* that can be taken is taken.  The steps are continuations of the handler *)
(* that the event loop runs once ready, and completions of external calls, *)
(* which are taken to settle eventually.                                   *)
(***************************************************************************)
InitBatch == InitScrape \/ InitResearch

NextBatch == NextScrape \/ NextResearch

FairBatch == InitBatch /\ [][NextBatch]_vars /\ WF_vars(NextBatch)

\* A call that passes validation, about to start.
ValidBatchCall ==
    /\ pc = "start"
    /\ \/ /\ tool = "scrape_links"
          /\ params.hasUrls
          /\ Len(ValidUrls(params.urls)) > 0
       \/ /\ tool = "deep_research"
          /\ Len(Questions(params)) >= MIN_QUESTIONS
          /\ Len(Questions(params)) <= MAX_QUESTIONS

\* The number of items handed to pMap.
FanOutSize == IF tool = "deep_research" THEN Len(locals.questions)
              ELSE Len(locals.successItems)

\* The handler has ended: by returning, every item of the fan-out (if there
\* was one) started and finished; or by passing on an exception a
\* collaborator raised.
BatchEnded ==
    /\ pc = "done"
    /\ \/ /\ outcome = "returned"
          /\ pm # PMapIdle =>
               /\ pm.next = FanOutSize + 1
               /\ DOMAIN pm.inflight = {}
               /\ DOMAIN pm.out = 1..FanOutSize
       \/ /\ outcome = "thrown"
          /\ raised

ScrapeReported ==
    /\ tool = "scrape_links" /\ pc = "done" /\ outcome = "returned"
    /\ result.structuredContent.kind = "report"

\* The entries of the report that stand for a URL that was not scraped
\* successfully.
FailedEntries(contents) ==
    {i \in 1..Len(contents) : contents[i].form \in {"invalid_url", "failed", "no_result"}}

\* C16: in every report of handleScrapeLinks, with one scrape result per
\* valid URL, successful + failed = total_urls = params.urls.length; every
\* invalid URL is counted once as failed and every scrape result once, as
\* successful or as failed.
C16_ScrapeCountsAddUp ==
    ScrapeReported
        => LET m == result.structuredContent.metadata IN
           /\ m.total_urls = Len(params.urls)
           /\ m.successful + m.failed = m.total_urls
           /\ m.successful = Len(locals.successItems)
           /\ m.failed = Cardinality(FailedEntries(locals.contents))
           /\ Cardinality({i \in 1..Len(locals.contents) :
                              locals.contents[i].form = "invalid_url"})
                 = Len(locals.invalidUrls)
           /\ Len(locals.contents) = Len(params.urls)
           /\ Len(locals.validUrls) + Len(locals.invalidUrls) = Len(params.urls)

\* Three URLs: one malformed, one scraped, one whose scrape failed.
C16_Witness ==
    /\ ScrapeReported
    /\ Len(params.urls) = 3
    /\ Len(locals.invalidUrls) = 1
    /\ result.structuredContent.metadata.successful = 1
    /\ result.structuredContent.metadata.failed = 2

\* handleScrapeLinks returned an error response.
ScrapeRejectedEarly ==
    /\ tool = "scrape_links" /\ pc = "done" /\ outcome = "returned"
    /\ result.structuredContent.kind = "error"

\* Some submitted URL parses.
SomeUrlParses == params.hasUrls /\ \E i \in 1..Len(params.urls) : URLParses(params.urls[i])

\* C17: every early rejection of handleScrapeLinks (NO_URLS, INVALID_URLS,
\* CLIENT_INIT_FAILED) comes before any scrape or LLM call and carries
\* metadata with successful = 0, failed = total_urls = the number of
\* submitted URLs and total_credits = 0; a missing or empty list is rejected
\* with NO_URLS, a list of which no URL parses with INVALID_URLS, and a list
\* with a parsable URL with neither of the two.
C17_EarlyRejections ==
    (tool = "scrape_links" /\ pc = "done")
        => /\ ScrapeRejectedEarly =>
                LET m == result.structuredContent.metadata
                    code == result.content.code
                IN /\ code \in {"NO_URLS", "INVALID_URLS", "CLIENT_INIT_FAILED"}
                   /\ calls["scrapeMultiple"] = 0
                   /\ calls["createLLMProcessor"] = 0
                   /\ calls["processContentWithLLM"] = 0
                   /\ sent = << >>
                   /\ m.successful = 0
                   /\ m.total_credits = 0
                   /\ m.total_urls = (IF params.hasUrls THEN Len(params.urls) ELSE 0)
                   /\ m.failed = m.total_urls
                   /\ SomeUrlParses => (code = "CLIENT_INIT_FAILED" /\ raised)
           /\ (~params.hasUrls \/ Len(params.urls) = 0)
                => (ScrapeRejectedEarly /\ result.content.code = "NO_URLS")
           /\ (params.hasUrls /\ Len(params.urls) > 0 /\ ~SomeUrlParses)
                => (ScrapeRejectedEarly /\ result.content.code = "INVALID_URLS")

\* Three URLs, one of them well-formed, rejected because the ScraperClient
\* constructor raised.
C17_Witness ==
    /\ ScrapeRejectedEarly
    /\ result.content.code = "CLIENT_INIT_FAILED"
    /\ Len(params.urls) = 3
    /\ Len(ValidUrls(params.urls)) = 1
    /\ result.structuredContent.metadata.failed = 3

\* C18: in handleDeepResearch the i-th entry of the returned results (the
\* "Question i" section of the report) belongs to the i-th input question,
\* whatever order the concurrent research calls complete in.
C18_ResultsInQuestionOrder ==
    (ResearchFannedOut /\ pc = "done" /\ outcome = "returned")
        => LET results == result.structuredContent.results IN
           /\ Len(results) = Len(params.questions)
           /\ \A i \in 1..Len(results) : results[i].question = params.questions[i].id
           /\ result.content.data = results

\* Three questions whose research calls completed last to first, reported.
C18_Witness ==
    /\ ResearchFannedOut /\ pc = "done" /\ outcome = "returned"
    /\ pm.order = <<3, 2, 1>>

\* The settled extraction callbacks whose result was not processed.
NotProcessed == {i \in DOMAIN pm.out : pm.out[i].content.form # "llm"}

\* C19: in handleScrapeLinks the counter llmErrors, incremented from the
\* concurrently running extraction callbacks, equals at every moment the
\* number of settled callbacks whose processContentWithLLM result was not
\* processed, under every interleaving, and the report carries the
\* "LLM extraction failures" extra exactly when that number is above 0.
C19_LLMErrorsExact ==
    ((tool = "scrape_links" /\ pc \in {"llm", "assemble"}) \/ ScrapeReported)
        => /\ locals.llmErrors = Cardinality(NotProcessed)
           /\ ScrapeReported =>
                ("LLM extraction failures" \in result.structuredContent.extras
                    <=> Cardinality(NotProcessed) > 0)

\* Five pages extracted, the callbacks settling out of order, two of them
\* without a processed result, and the report returned.
C19_Witness ==
    /\ ScrapeReported
    /\ Len(pm.order) = 5
    /\ pm.order[1] = 3
    /\ Cardinality(NotProcessed) = 2
    /\ locals.llmErrors = 2

\* The content of an item that went without LLM extraction: as cleaned, or
\* as scraped where the cleaner raised.
ScrapedForms == {"cleaned", "raw"}

\* Every item carries content that came from its own URL.
ItemsPaired(items) ==
    \A i \in 1..Len(items) : items[i].content.of = items[i].url

\* The meta-tag pass leaves a content as it is or strips it.
FinalForm(form, entryForm) == entryForm \in {form, "clean_" \o form}

\* The state part of C20, where the counts are fixed: the LLM pass runs, or
\* the report is being assembled, or has been returned.
C20_Degraded ==
    ((tool = "scrape_links" /\ pc \in {"llm", "assemble"}) \/ ScrapeReported)
        => /\ locals.successful = Len(locals.successItems)
           /\ ItemsPaired(locals.successItems)
           /\ \A i \in DOMAIN pm.out :
                /\ pm.out[i].url = locals.successItems[i].url
                /\ pm.out[i].content.of = pm.out[i].url
                /\ i \in NotProcessed => pm.out[i].content.form \in ScrapedForms
           /\ (pc \in {"assemble", "done"} /\ (~params.use_llm \/ locals.llmProcessor = "null"))
                => \A i \in 1..Len(locals.successItems) :
                       locals.successItems[i].content.form \in ScrapedForms
           /\ ScrapeReported =>
                LET m == result.structuredContent.metadata
                    entries == locals.contents
                    k == Len(entries) - Len(locals.successItems)
                IN /\ m.successful = Len(locals.successItems)
                   /\ m.successful + m.failed = Len(entries)
                   /\ \A i \in 1..Len(locals.successItems) :
                        /\ entries[k + i].url = locals.successItems[i].url
                        /\ entries[k + i].of = locals.successItems[i].url
                        /\ FinalForm(locals.successItems[i].content.form, entries[k + i].form)

\* C20: LLM extraction degrades gracefully in handleScrapeLinks: an item
\* whose extraction is not processed (or that gets none, use_llm being false
\* or no processor configured) keeps its cleaned scraped content under its
\* own URL and counts as successful; the successful and failed counts are
\* fixed before the LLM pass and no step of the pass or after it changes
\* them; every item's content stays paired with its own URL.
C20_GracefulDegradation ==
    /\ []C20_Degraded
    /\ [][(tool = "scrape_links" /\ pc \in {"llm", "assemble"})
            => /\ locals'.successful = locals.successful
               /\ locals'.failed = locals.failed
               /\ Len(locals'.successItems) = Len(locals.successItems)]_vars

\* Pages extracted out of order, one keeping its cleaned content and one
\* taking the extracted content, all counted successful in the report.
C20_Witness ==
    /\ ScrapeReported
    /\ Len(pm.order) >= 3
    /\ pm.order[1] # 1
    /\ result.structuredContent.metadata.successful = Len(pm.order)
    /\ \E i, j \in 1..Len(locals.successItems) :
         /\ locals.successItems[i].content.form = "cleaned"
         /\ locals.successItems[j].content.form = "llm"

\* The scrape results that have no error and a statusCode in 200..299.
SuccessfulResults(results) ==
    {i \in 1..Len(results) :
        /\ results[i].present
        /\ ~results[i].error
        /\ results[i].statusCode \in 200..299}

\* The credits of the results whose index is in `which`.
RECURSIVE CreditsOf(_, _, _)
CreditsOf(results, which, i) ==
    IF i > Len(results) THEN 0
    ELSE (IF i \in which THEN results[i].credits ELSE 0) + CreditsOf(results, which, i + 1)

\* C21: handleScrapeLinks counts a scrape result as successful exactly when
\* it has no error and its statusCode is in 200..299; total_credits is the
\* sum of the credits of the successful results only.
C21_SuccessAndCredits ==
    ScrapeReported
        => LET m == result.structuredContent.metadata
               results == locals.results
               good == SuccessfulResults(results)
           IN /\ m.successful = Cardinality(good)
              /\ m.failed = Len(locals.invalidUrls) + Len(results) - Cardinality(good)
              /\ m.total_credits = CreditsOf(results, good, 1)
              /\ {locals.successItems[k].index + 1 : k \in 1..Len(locals.successItems)} = good

\* Three URLs scraped: one with status 299, whose credits count, one with
\* status 300 and one with an error, whose credits do not.
C21_Witness ==
    /\ ScrapeReported
    /\ Len(locals.results) = 3
    /\ \E i, j, k \in 1..3 :
         /\ locals.results[i].present /\ locals.results[i].statusCode = 299
         /\ locals.results[j].present /\ locals.results[j].statusCode = 300
         /\ locals.results[k].present /\ locals.results[k].error
    /\ result.structuredContent.metadata.total_credits = 2

\* handleWebSearch returned its report, not an error payload.
SearchReported ==
    /\ tool = "web_search" /\ pc = "done" /\ outcome = "returned"
    /\ result.structuredContent.kind = "report"

\* The number of result lines of a listing.
RECURSIVE ResultLines(_, _)
ResultLines(queries, i) ==
    IF i > Len(queries) THEN 0
    ELSE Len(queries[i].results) + ResultLines(queries, i + 1)

\* C22: handleWebSearch lists at most 15 queries, each with at most 10
\* results, and at most 5 when totalKeywords > 10; the listed queries and
\* results are the first ones returned; metadata.total_results is the number
\* of result lines listed and never exceeds 150; the note on additional
\* queries is shown exactly when more than 15 searches were returned, and it
\* states searches.length - 15.
C22_ListingBounded ==
    SearchReported
        => LET searches == locals.response.searches
               listed == result.content.queries
               note == result.content.note
               most == IF locals.response.totalKeywords > 10 THEN 5 ELSE 10
           IN /\ Len(listed) <= 15
              /\ Len(listed) = (IF Len(searches) > 15 THEN 15 ELSE Len(searches))
              /\ \A i \in 1..Len(listed) :
                   /\ listed[i].keyword = searches[i].keyword
                   /\ Len(listed[i].results) <= most
                   /\ Len(listed[i].results) =
                        (IF Len(searches[i].results) > most THEN most
                         ELSE Len(searches[i].results))
                   /\ \A k \in 1..Len(listed[i].results) :
                        listed[i].results[k] = searches[i].results[k]
              /\ result.structuredContent.metadata.total_results = ResultLines(listed, 1)
              /\ result.structuredContent.metadata.total_results <= 150
              /\ note.shown <=> Len(searches) > 15
              /\ note.shown => note.additional = Len(searches) - 15

\* Sixteen searches of six results each: fifteen are listed with five results
\* each, and the note states one additional query.
C22_Witness ==
    /\ SearchReported
    /\ Len(locals.response.searches) = 16
    /\ \A i \in 1..16 : Len(locals.response.searches[i].results) = 6
    /\ Len(result.content.queries) = 15
    /\ result.structuredContent.metadata.total_results = 75
    /\ result.content.note.shown
    /\ result.content.note.additional = 1

\* The searches, among all those returned, that hold the URL.
SearchesHolding(searches, url) ==
    { i \in 1..Len(searches) :
        \E k \in 1..Len(searches[i].results) : searches[i].results[k] = url }

\* The ranks, in rank order, of the ranked URLs that reach the threshold.
ConsensusRanks(aggregation) ==
    { k \in 1..Len(aggregation.rankedUrls) :
        aggregation.rankedUrls[k].frequency >= aggregation.frequencyThreshold }

\* C23: the consensus set of handleWebSearch is exactly the ranked URLs whose
\* frequency, counted over all returned searches, is at least
\* aggregation.frequencyThreshold, in rank order; consensus_url_count is its
\* size; the URLs suggested for scraping are the first at most 5 consensus
\* URLs when there is one, and otherwise the first at most 5 ranked URLs.
C23_ConsensusUrls ==
    SearchReported
        => LET searches == locals.response.searches
               ranked == locals.aggregation.rankedUrls
               ranks == ConsensusRanks(locals.aggregation)
               consensus == result.content.consensus
               scrape == result.content.scrape
               from == IF ranks # {} THEN consensus ELSE ranked
           IN /\ \A k \in 1..Len(ranked) :
                   ranked[k].frequency = Cardinality(SearchesHolding(searches, ranked[k].url))
              /\ Len(consensus) = Cardinality(ranks)
              /\ \A j \in 1..Len(consensus) :
                   \E k \in ranks :
                       /\ consensus[j] = ranked[k]
                       /\ Cardinality({ h \in ranks : h < k }) = j - 1
              /\ result.structuredContent.metadata.consensus_url_count = Cardinality(ranks)
              /\ Len(scrape) = (IF Len(from) > 5 THEN 5 ELSE Len(from))
              /\ \A j \in 1..Len(scrape) : scrape[j] = from[j].url

\* Sixteen searches of six links each: every link has frequency 16, beyond
\* the fifteen listed searches; the six links are the consensus set and the
\* first five of them are suggested for scraping.
C23_Witness ==
    /\ SearchReported
    /\ Len(locals.response.searches) = 16
    /\ Len(result.content.consensus) = 6
    /\ \A j \in 1..6 : result.content.consensus[j].frequency = 16
    /\ result.structuredContent.metadata.consensus_url_count = 6
    /\ Len(result.content.scrape) = 5

\* handleSearchReddit called searchRedditMultiple.
RedditSearchSent ==
    /\ tool = "search_reddit" /\ pc \in {"searching", "done"}
    /\ calls["searchRedditMultiple"] > 0

\* searchRedditMultiple resolved and handleSearchReddit ended.
RedditSearchAnswered ==
    /\ tool = "search_reddit" /\ pc = "done"
    /\ "results" \in DOMAIN locals

\* C24: handleSearchReddit forwards to searchRedditMultiple, in one call, the
\* first 50 queries in their order and none of the later ones; when the
\* results of the forwarded queries total zero it returns a NO_RESULTS error
\* report without aggregating; otherwise it aggregates exactly once and,
\* unless a helper raised, returns the enhanced report of the forwarded
\* queries.
C24_FirstFiftyQueries ==
    /\ RedditSearchSent
         => /\ calls["searchRedditMultiple"] = 1
            /\ Len(sent) = (IF Len(params.queries) > 50 THEN 50 ELSE Len(params.queries))
            /\ \A i \in 1..Len(sent) : sent[i] = params.queries[i]
    /\ (tool = "search_reddit" /\ ~RedditSearchSent) => sent = << >>
    /\ (tool = "search_reddit" /\ ~RedditSearchAnswered) => calls["aggregate"] = 0
    /\ RedditSearchAnswered
         => IF \A i \in 1..Len(locals.results) : locals.results[i] = 0
            THEN /\ calls["aggregate"] = 0
                 /\ outcome = "returned"
                 /\ result.kind = "error_report"
                 /\ result.code = "NO_RESULTS"
            ELSE /\ calls["aggregate"] = 1
                 /\ ~raised => /\ outcome = "returned"
                               /\ result.kind = "enhanced_output"
                               /\ result.queries = sent

\* Fifty-one queries: fifty were forwarded, results were found, and the
\* enhanced report was returned after one aggregation.
C24_Witness ==
    /\ RedditSearchAnswered
    /\ Len(params.queries) = 51
    /\ Len(sent) = 50
    /\ calls["aggregate"] = 1
    /\ result.kind = "enhanced_output"

====
